---- MODULE Spec2Model ----
(***************************************************************************)
(* Model of the quai-cpu-miner orchestrator (main.go): the pending-header  *)
(* feed, the sealing coordinator (miningLoop), the result fan-out          *)
(* (resultLoop), the proxy session requests and their retry loops.         *)
(*                                                                         *)
(* Headers are numbered 1, 2, ... in the order the upstream produced them. *)
(* Every goroutine is a process with a program counter; an action is one   *)
(* step of one goroutine between two points where another goroutine can    *)
(* interleave (a channel operation, a network call, a shared-memory        *)
(* access).                                                                *)
(*                                                                         *)
(* Left out: previousNumber and the log lines of miningLoop (display       *)
(* only), the 60 s period of hashratePrinter, and the log.Fatal exits      *)
(* taken when jsonrpc.MakeRequest or SubscribePendingHeader fails.         *)
(* m.latestId is a uint64; the runs stay far below 2^64, so no wrap-around *)
(* is modelled.  The hash rates printed are non-negative integers that are *)
(* float64 values; fractional rates, NaN and +Inf (for which the loop of   *)
(* toSiUnits does not end) are not modelled.                               *)
(***************************************************************************)
EXTENDS Integers, Sequences, FiniteSets, TLC

(* ------------------------------ bounds --------------------------------- *)
\* headers the upstream produces in one run
MaxHeaders == 2
\* transport failures one retry loop meets in the pipeline specifications
MaxFail == 1
\* solutions the engine finds in one run of the proxy program
MaxFound == 1
\* transport failures one retry loop meets in SpecRetry (2^14 > maxRetryDelay)
MaxRetries == 16

\* base-1000 digits of the largest hash rate read (1000^5 = 10^15 needs 6)
MaxLimbs == 6

(* -------------------------- program constants -------------------------- *)
resultQueueSize == 10
maxRetryDelay == 14400
HierarchyDepth == 3
PRIME_CTX == 0
REGION_CTX == 1
ZONE_CTX == 2

VARIABLES
    proxy,        \* config.Proxy
    produced,     \* number of the newest header the upstream has produced
    subscribed,   \* the Zone subscription is installed (direct-node mode)
    updateCh,     \* m.updateCh: buffered channel of headers
    resultCh,     \* m.resultCh: buffered channel of sealed headers
    pcMine,       \* miningLoop: "recv" (blocked in select) or "seal"
    header,       \* miningLoop: the header received in this iteration
    stopCh,       \* miningLoop: index of the current stop channel, 0 = nil
    attempts,     \* one record per stop channel made, in creation order
    emitted,      \* history: every result an engine task offered to resultCh
    pcResult,     \* resultLoop: "recv", "submit" (in the fan-out) or "returned"
    resAtt,       \* resultLoop: the result being fanned out (its attempt), 0 = none
    resI,         \* resultLoop: the loop variable i of the fan-out
    outcome,      \* per attempt: what resultLoop did with its result
    latestId,     \* m.latestId
    wire,         \* requests written to the proxy connection, in order
    issued,       \* history: ids returned by incrementLatestID, in order
    pc,           \* per request goroutine: program counter
    cur,          \* incrementLatestID: local cur
    tmp,          \* incrementLatestID: value loaded by m.latestId += 1
    retryDelay,   \* per retry loop: local retryDelay
    nfail,        \* history: failures of the loop whose sleep has ended
    lastSleep,    \* history: the delay of the last time.Sleep ended, 0 = none yet
    sendErr,      \* fetchPendingHeaderProxy: err of the last SendTCPRequest
    held,         \* fetch goroutines: local header
    firstPush,    \* history: who put the first header on updateCh
    pcMain,       \* main: "connect" (in connectToSlice) or "running"
    urlSet,       \* per tier: the configured URL is not ""
    connected,    \* connectToSlice: primeConnected, regionConnected, zoneConnected
    dials,        \* history: successful ethclient.Dial calls per tier
    dialTier,     \* connectToSlice: the tier whose `if` is next, HierarchyDepth = at the loop test
    dialFails,    \* history: failed ethclient.Dial calls of connectToSlice
    hashrate,     \* hashratePrinter: the rate read from engine.Hashrate()
    printed       \* hashratePrinter: the (hr, units) pair of the last log line

vars == << proxy, produced, subscribed, updateCh, resultCh, pcMine, header,
           stopCh, attempts, emitted, pcResult, resAtt, resI, outcome, latestId, wire,
           issued, pc, cur, tmp, retryDelay, nfail, lastSleep, sendErr, held,
           firstPush, pcMain, urlSet, connected, dials, dialTier, dialFails,
           hashrate,
           printed >>

feedVars == << produced, subscribed, updateCh, firstPush >>
mainVars == << pcMain, urlSet, connected, dials, dialTier, dialFails, hashrate,
              printed >>
mineVars == << pcMine, header, stopCh, attempts >>
resultVars == << pcResult, resAtt, resI, outcome >>
idVars == << latestId, issued, cur, tmp >>
retryVars == << retryDelay, nfail, lastSleep >>

(* ----------------------------- goroutines ------------------------------ *)
SubProxy == << "subscribeProxy", 0 >>
FetchProxy == << "fetchPendingHeaderProxy", 0 >>
FetchNode == << "fetchPendingHeaderNode", 0 >>
Sender(a) == << "sendMinedHeaderProxy", a >>
Senders == { Sender(a) : a \in 1..MaxHeaders }
Procs == { SubProxy, FetchProxy, FetchNode } \cup Senders

Tiers == PRIME_CTX..ZONE_CTX

NoOutcome == [ status |-> "none", order |-> HierarchyDepth, subs |-> << >>,
               errlogs |-> 0 ]

\* hashratePrinter has not logged yet
NoLine == [ hr |-> [ m |-> << >>, e |-> 0 ], units |-> "" ]

(* ------------------------------- Init ---------------------------------- *)
\* main(): the Miner literal, then the goroutines of the selected mode.
InitCommon ==
    /\ subscribed = FALSE
    /\ updateCh = << >>
    /\ resultCh = << >>
    /\ pcMine = "recv"
    /\ header = 0
    /\ stopCh = 0
    /\ attempts = << >>
    /\ emitted = << >>
    /\ pcResult = "recv"
    /\ resAtt = 0
    /\ resI = 0
    /\ outcome = [ a \in 1..MaxHeaders |-> NoOutcome ]
    /\ latestId = 0
    /\ wire = << >>
    /\ issued = << >>
    /\ cur = [ p \in Procs |-> 0 ]
    /\ tmp = [ p \in Procs |-> 0 ]
    /\ retryDelay = [ p \in Procs |-> 1 ]
    /\ nfail = [ p \in Procs |-> 0 ]
    /\ lastSleep = [ p \in Procs |-> 0 ]
    /\ sendErr = FALSE
    /\ held = [ p \in Procs |-> 0 ]
    /\ firstPush = "none"
    /\ printed = NoLine

\* proxy mode (main.go 158-162): the proxy sends every header as a frame.
\* direct-node mode (main.go 163-167): the Zone node holds pending header 1.
MainStart(isProxy) ==
    /\ pcMain = "running"
    /\ urlSet = [ t \in Tiers |-> ~isProxy ]
    /\ connected = [ t \in Tiers |-> ~isProxy ]
    /\ dials = [ t \in Tiers |-> IF isProxy THEN 0 ELSE 1 ]
    /\ dialTier = HierarchyDepth
    /\ dialFails = 0
    /\ proxy = isProxy
    /\ produced = IF isProxy THEN 0 ELSE 1
    /\ pc = [ p \in Procs |->
                IF isProxy /\ p \in { SubProxy, FetchProxy } THEN "id_read"
                ELSE IF ~isProxy /\ p = FetchNode THEN "get"
                ELSE "idle" ]

(* ------------------------ incrementLatestID ---------------------------- *)
\* main.go 396-400.  The function takes no lock and uses no atomic, and it is
\* called from several goroutines, so its three memory accesses are separate
\* steps: cur := m.latestId, the load of m.latestId += 1, and its store.
IdRead(p) ==
    /\ pc[p] = "id_read"
    /\ cur' = [ cur EXCEPT ![p] = latestId ]
    /\ pc' = [ pc EXCEPT ![p] = "id_load" ]
    /\ UNCHANGED << mainVars, proxy, feedVars, resultCh, mineVars, emitted, resultVars,
                    latestId, wire, issued, tmp, retryVars, sendErr, held >>

IdLoad(p) ==
    /\ pc[p] = "id_load"
    /\ tmp' = [ tmp EXCEPT ![p] = latestId ]
    /\ pc' = [ pc EXCEPT ![p] = "id_store" ]
    /\ UNCHANGED << mainVars, proxy, feedVars, resultCh, mineVars, emitted, resultVars,
                    latestId, wire, issued, cur, retryVars, sendErr, held >>

\* the store, and `return cur`: the caller goes on to build and send its request
IdStore(p) ==
    /\ pc[p] = "id_store"
    /\ latestId' = tmp[p] + 1
    /\ issued' = Append(issued, [ proc |-> p, id |-> cur[p] ])
    /\ pc' = [ pc EXCEPT ![p] = "send" ]
    /\ UNCHANGED << mainVars, proxy, feedVars, resultCh, mineVars, emitted, resultVars,
                    wire, cur, tmp, retryVars, sendErr, held >>

(* --------------------------- Retry Policy ------------------------------ *)
\* NextDelay without the cap of main.go 216-218
NextDelayNoCap(d) == d * 2

\* main.go 215-218, 234-237, 378-381: retryDelay *= 2, capped at maxRetryDelay
NextDelay(d) == IF d * 2 > maxRetryDelay THEN maxRetryDelay ELSE d * 2

\* main.go 214-218, 233-237, 377-381: time.Sleep(retryDelay), then the doubling
Backoff(p) ==
    /\ lastSleep' = [ lastSleep EXCEPT ![p] = retryDelay[p] ]
    /\ retryDelay' = [ retryDelay EXCEPT ![p] = NextDelay(retryDelay[p]) ]
    /\ nfail' = [ nfail EXCEPT ![p] = nfail[p] + 1 ]

(* ---------------------------- proxy session ---------------------------- *)
\* history of the update channel: the goroutine that sent on it first
FirstPush(src) == IF firstPush = "none" THEN src ELSE firstPush

\* util.MinerSession.SendTCPRequest: writes the request to the connection,
\* or fails with a transport error and writes nothing.
SendTCPRequest(method, id, ok) ==
    wire' = IF ok THEN Append(wire, [ method |-> method, id |-> id ]) ELSE wire

\* main.go 177-187: subscribeProxy, after incrementLatestID returned
SubscribeProxySend ==
    /\ pc[SubProxy] = "send"
    /\ \E ok \in BOOLEAN : SendTCPRequest("quai_submitLogin", cur[SubProxy], ok)
    /\ pc' = [ pc EXCEPT ![SubProxy] = "done" ]
    /\ UNCHANGED << mainVars, proxy, feedVars, resultCh, mineVars, emitted, resultVars,
                    idVars, retryVars, sendErr, held >>

\* main.go 189-191 and util.MinerSession.ListenTCP: the receive loop decodes
\* the next inbound frame and pushes its header onto updateCh.
StartProxyListener(bound) ==
    /\ pcMain = "running"
    /\ proxy
    /\ produced < bound
    /\ Len(updateCh) < resultQueueSize
    /\ produced' = produced + 1
    /\ updateCh' = Append(updateCh, produced + 1)
    /\ firstPush' = FirstPush("listener")
    /\ UNCHANGED << mainVars, proxy, subscribed, resultCh, mineVars, emitted, resultVars,
                    idVars, wire, pc, retryVars, sendErr, held >>

\* main.go 205-209: the request is sent; err is kept for the test at 212
FetchProxySend(bound) ==
    /\ pc[FetchProxy] = "send"
    /\ \E ok \in BOOLEAN :
         /\ ~ok => nfail[FetchProxy] < bound
         /\ SendTCPRequest("quai_getPendingHeader", cur[FetchProxy], ok)
         /\ sendErr' = ~ok
    /\ pc' = [ pc EXCEPT ![FetchProxy] = "take" ]
    /\ UNCHANGED << mainVars, proxy, feedVars, resultCh, mineVars, emitted, resultVars,
                    idVars, retryVars, held >>

\* main.go 210-212: header := <-m.updateCh, whatever err was
FetchProxyTake ==
    /\ pc[FetchProxy] = "take"
    /\ updateCh # << >>
    /\ held' = [ held EXCEPT ![FetchProxy] = Head(updateCh) ]
    /\ updateCh' = Tail(updateCh)
    /\ pc' = [ pc EXCEPT ![FetchProxy] = IF sendErr THEN "sleep" ELSE "put" ]
    /\ UNCHANGED << mainVars, proxy, produced, subscribed, firstPush, resultCh, mineVars, emitted,
                    resultVars, idVars, wire, retryVars, sendErr >>

\* main.go 213-218: the error branch; the loop starts over at 205
FetchProxyBackoff ==
    /\ pc[FetchProxy] = "sleep"
    /\ Backoff(FetchProxy)
    /\ pc' = [ pc EXCEPT ![FetchProxy] = "id_read" ]
    /\ UNCHANGED << mainVars, proxy, feedVars, resultCh, mineVars, emitted, resultVars,
                    idVars, wire, sendErr, held >>

\* main.go 220-221: m.updateCh <- header; break
FetchProxyPutBack ==
    /\ pc[FetchProxy] = "put"
    /\ Len(updateCh) < resultQueueSize
    /\ updateCh' = Append(updateCh, held[FetchProxy])
    /\ firstPush' = FirstPush("fetch")
    /\ pc' = [ pc EXCEPT ![FetchProxy] = "done" ]
    /\ UNCHANGED << mainVars, proxy, produced, subscribed, resultCh, mineVars, emitted,
                    resultVars, idVars, wire, retryVars, sendErr, held >>

(* --------------------------- direct-node feed -------------------------- *)
\* main.go 230, 238-239: GetPendingHeader returns the node's pending header
FetchNodeOk ==
    /\ pc[FetchNode] = "get"
    /\ held' = [ held EXCEPT ![FetchNode] = produced ]
    /\ pc' = [ pc EXCEPT ![FetchNode] = "put" ]
    /\ UNCHANGED << mainVars, proxy, feedVars, resultCh, mineVars, emitted, resultVars,
                    idVars, wire, retryVars, sendErr >>

\* main.go 230-233: GetPendingHeader fails; the log line, and the goroutine
\* enters time.Sleep with retryDelay not yet doubled
FetchNodeFail(bound) ==
    /\ pc[FetchNode] = "get"
    /\ nfail[FetchNode] < bound
    /\ pc' = [ pc EXCEPT ![FetchNode] = "sleep" ]
    /\ UNCHANGED << mainVars, proxy, feedVars, resultCh, mineVars, emitted, resultVars,
                    idVars, wire, retryVars, sendErr, held >>

\* main.go 233-237: the sleep ends, retryDelay is doubled; the loop starts
\* over at 230
FetchNodeBackoff ==
    /\ pc[FetchNode] = "sleep"
    /\ Backoff(FetchNode)
    /\ pc' = [ pc EXCEPT ![FetchNode] = "get" ]
    /\ UNCHANGED << mainVars, proxy, feedVars, resultCh, mineVars, emitted, resultVars,
                    idVars, wire, sendErr, held >>

\* main.go 239-240: m.updateCh <- header; break
FetchNodePut ==
    /\ pc[FetchNode] = "put"
    /\ Len(updateCh) < resultQueueSize
    /\ updateCh' = Append(updateCh, held[FetchNode])
    /\ firstPush' = FirstPush("fetch")
    /\ pc' = [ pc EXCEPT ![FetchNode] = "done" ]
    /\ UNCHANGED << mainVars, proxy, produced, subscribed, resultCh, mineVars, emitted,
                    resultVars, idVars, wire, retryVars, sendErr, held >>

\* main.go 194-198: the subscription is installed on the Zone client
SubscribeNode ==
    /\ pcMain = "running"
    /\ ~proxy
    /\ ~subscribed
    /\ subscribed' = TRUE
    /\ UNCHANGED << mainVars, proxy, produced, updateCh, firstPush, resultCh, mineVars, emitted,
                    resultVars, idVars, wire, pc, retryVars, sendErr, held >>

\* the Zone node builds a new pending header; a subscription installed by
\* main.go 195 delivers it on updateCh
ZoneNewHeader ==
    /\ ~proxy
    /\ produced < MaxHeaders
    /\ subscribed => Len(updateCh) < resultQueueSize
    /\ produced' = produced + 1
    /\ updateCh' = IF subscribed THEN Append(updateCh, produced + 1) ELSE updateCh
    /\ firstPush' = IF subscribed THEN FirstPush("subscription") ELSE firstPush
    /\ UNCHANGED << mainVars, proxy, subscribed, resultCh, mineVars, emitted, resultVars,
                    idVars, wire, pc, retryVars, sendErr, held >>

(* ------------------------ Sealing Coordinator -------------------------- *)
\* the newest attempt whose engine.Seal call has returned nil, 0 if none
LastStarted ==
    IF \E i \in 1..Len(attempts) : attempts[i].seal = "ok"
    THEN CHOOSE i \in 1..Len(attempts) :
           /\ attempts[i].seal = "ok"
           /\ \A j \in (i + 1)..Len(attempts) : attempts[j].seal # "ok"
    ELSE 0

\* stop channels made and not closed
OpenStops == { i \in 1..Len(attempts) : attempts[i].closes = 0 }

\* interrupt without the close of main.go 253
InterruptNoClose(att, s) == att

\* main.go 251-256: interrupt closes stopCh unless it is nil
Interrupt(att, s) ==
    IF s # 0 THEN [ att EXCEPT ![s].closes = @ + 1 ] ELSE att

\* MiningLoopRecv without the call of interrupt() at main.go 263: the
\* previous attempt is left running
MiningLoopRecvNoInterrupt ==
    /\ pcMain = "running"
    /\ pcMine = "recv"
    /\ updateCh # << >>
    /\ header' = Head(updateCh)
    /\ updateCh' = Tail(updateCh)
    /\ attempts' = Append(attempts,
                          [ hdr |-> Head(updateCh), closes |-> 0,
                            seal |-> "pending", task |-> "none" ])
    /\ stopCh' = Len(attempts) + 1
    /\ pcMine' = "seal"
    /\ UNCHANGED << mainVars, proxy, produced, subscribed, firstPush, resultCh, emitted, resultVars,
                    idVars, wire, pc, retryVars, sendErr, held >>

\* MiningLoopRecv with the statements of main.go 262 and 263 swapped: the
\* channel just made is the one interrupt closes
MiningLoopRecvCloseFresh ==
    /\ pcMain = "running"
    /\ pcMine = "recv"
    /\ updateCh # << >>
    /\ header' = Head(updateCh)
    /\ updateCh' = Tail(updateCh)
    /\ attempts' = Interrupt(Append(attempts,
                                    [ hdr |-> Head(updateCh), closes |-> 0,
                                      seal |-> "pending", task |-> "none" ]),
                             Len(attempts) + 1)
    /\ stopCh' = Len(attempts) + 1
    /\ pcMine' = "seal"
    /\ UNCHANGED << mainVars, proxy, produced, subscribed, firstPush, resultCh, emitted, resultVars,
                    idVars, wire, pc, retryVars, sendErr, held >>

\* main.go 259-264: a header is received, the previous attempt is
\* interrupted and a fresh stop channel is made
MiningLoopRecv ==
    /\ pcMain = "running"
    /\ pcMine = "recv"
    /\ updateCh # << >>
    /\ header' = Head(updateCh)
    /\ updateCh' = Tail(updateCh)
    /\ attempts' = Append(Interrupt(attempts, stopCh),
                          [ hdr |-> Head(updateCh), closes |-> 0,
                            seal |-> "pending", task |-> "none" ])
    /\ stopCh' = Len(attempts) + 1
    /\ pcMine' = "seal"
    /\ UNCHANGED << mainVars, proxy, produced, subscribed, firstPush, resultCh, emitted, resultVars,
                    idVars, wire, pc, retryVars, sendErr, held >>

\* MiningLoopSeal leaving the loop when engine.Seal returns an error
MiningLoopSealReturn ==
    /\ pcMine = "seal"
    /\ \E err \in BOOLEAN :
         /\ attempts' = [ attempts EXCEPT
                            ![stopCh].seal = IF err THEN "err" ELSE "ok",
                            ![stopCh].task = IF err THEN "none" ELSE "mining" ]
         /\ pcMine' = IF err THEN "returned" ELSE "recv"
    /\ UNCHANGED << mainVars, proxy, feedVars, resultCh, header, stopCh, emitted,
                    resultVars, idVars, wire, pc, retryVars, sendErr, held >>

\* main.go 265-286: the log line, SetTime, and engine.Seal(header, m.resultCh,
\* stopCh).  Seal returns an error, which is logged, or starts its sealing
\* task and returns nil.
MiningLoopSeal ==
    /\ pcMine = "seal"
    /\ \E err \in BOOLEAN :
         attempts' = [ attempts EXCEPT
                         ![stopCh].seal = IF err THEN "err" ELSE "ok",
                         ![stopCh].task = IF err THEN "none" ELSE "mining" ]
    /\ pcMine' = "recv"
    /\ UNCHANGED << mainVars, proxy, feedVars, resultCh, header, stopCh, emitted,
                    resultVars, idVars, wire, pc, retryVars, sendErr, held >>

(* --------------------------- sealing engine ---------------------------- *)
\* The engine behind engine.Seal (main.go 284) is an asynchronous task.  It
\* looks at its stop channel at each of its steps: a step of the search, and
\* the step that pushes a solution onto the result channel.  A task that
\* sees the channel closed stops and emits nothing.
\* a step of the search finds a solution; the stop channel was seen open
EngineFind(a) ==
    /\ attempts[a].task = "mining"
    /\ attempts[a].closes = 0
    /\ attempts' = [ attempts EXCEPT ![a].task = "found" ]
    /\ UNCHANGED << mainVars, proxy, feedVars, resultCh, pcMine, header, stopCh, emitted,
                    resultVars, idVars, wire, pc, retryVars, sendErr, held >>

\* the task sees its stop channel closed and ends without a result; a
\* solution found and not yet pushed is dropped
EngineAbort(a) ==
    /\ attempts[a].task \in { "mining", "found" }
    /\ attempts[a].closes > 0
    /\ attempts' = [ attempts EXCEPT
                       ![a].task = IF @ = "found" THEN "dropped" ELSE "aborted" ]
    /\ UNCHANGED << mainVars, proxy, feedVars, resultCh, pcMine, header, stopCh, emitted,
                    resultVars, idVars, wire, pc, retryVars, sendErr, held >>

\* the task, its stop channel seen open, offers its solution to the result
\* channel (dropped when the channel is full)
EngineOffer(a) ==
    /\ attempts[a].task = "found"
    /\ attempts[a].closes = 0
    /\ attempts' = [ attempts EXCEPT ![a].task = "done" ]
    /\ resultCh' = IF Len(resultCh) < resultQueueSize
                   THEN Append(resultCh, [ hdr |-> attempts[a].hdr, att |-> a ])
                   ELSE resultCh
    /\ emitted' = Append(emitted, [ att |-> a, hdr |-> attempts[a].hdr,
                                    started |-> LastStarted,
                                    queued |-> Len(resultCh) < resultQueueSize ])
    /\ UNCHANGED << mainVars, proxy, feedVars, pcMine, header, stopCh, resultVars,
                    idVars, wire, pc, retryVars, sendErr, held >>

(* ---------------------------- Result Fan-out --------------------------- *)
\* the loop condition of main.go 340 with the test i > order
FanOutContinuesExclusive(i, order) == i > order

\* main.go 340: the loop condition i >= order
FanOutContinues(i, order) == i >= order

\* the fan-out leaving the loop at a failed submission
AfterSubmitBreak(i, ok) == IF ok THEN i - 1 ELSE 0 - 1

\* main.go 340-347: after sendMinedHeaderNodes(i, header) the loop goes on with
\* i--, through `continue` when the call failed and by falling through
\* when it succeeded
AfterSubmit(i, ok) == i - 1

\* main.go 333-338: CalcOrder fails; the log line, then `return`
ResultLoopInvalid ==
    /\ pcMain = "running"
    /\ pcResult = "recv"
    /\ resultCh # << >>
    /\ resultCh' = Tail(resultCh)
    /\ outcome' = [ outcome EXCEPT ![Head(resultCh).att] =
                      [ status |-> "invalid", order |-> HierarchyDepth,
                        subs |-> << >>, errlogs |-> 1 ] ]
    /\ pcResult' = "returned"
    /\ UNCHANGED << resAtt, resI, mainVars, proxy, feedVars, mineVars, emitted, idVars, wire, pc,
                    retryVars, sendErr, held >>

\* main.go 332-340: direct-node mode; a result is received, CalcOrder gives
\* its order, and the fan-out loop is entered with i = HierarchyDepth - 1
ResultLoopNodesRecv ==
    /\ pcMain = "running"
    /\ pcResult = "recv"
    /\ ~proxy
    /\ resultCh # << >>
    /\ resultCh' = Tail(resultCh)
    /\ \E order \in Tiers :
         outcome' = [ outcome EXCEPT ![Head(resultCh).att] =
                        [ status |-> "submitting", order |-> order,
                          subs |-> << >>, errlogs |-> 0 ] ]
    /\ resAtt' = Head(resultCh).att
    /\ resI' = HierarchyDepth - 1
    /\ pcResult' = "submit"
    /\ UNCHANGED << mainVars, proxy, feedVars, mineVars, emitted, idVars, wire,
                    pc, retryVars, sendErr, held >>

\* main.go 340-346 and 391-393: one pass of the loop body; the call
\* ReceiveMinedHeader on the client of tier i returns nil or an error.  The
\* error branch calls fmt.Errorf, which builds an error value and writes
\* nothing, and drops the value: no log line.
ResultLoopSubmit ==
    /\ pcResult = "submit"
    /\ FanOutContinues(resI, outcome[resAtt].order)
    /\ \E ok \in BOOLEAN :
         /\ outcome' = [ outcome EXCEPT
                           ![resAtt].subs = Append(@, [ tier |-> resI, ok |-> ok ]) ]
         /\ resI' = AfterSubmit(resI, ok)
    /\ UNCHANGED << mainVars, proxy, feedVars, resultCh, mineVars, emitted,
                    pcResult, resAtt, idVars, wire, pc, retryVars, sendErr, held >>

\* main.go 340, 352-359: the loop is left, the block is logged by its order,
\* and resultLoop waits for the next result
ResultLoopClassify ==
    /\ pcResult = "submit"
    /\ ~FanOutContinues(resI, outcome[resAtt].order)
    /\ outcome' = [ outcome EXCEPT ![resAtt].status = "nodes" ]
    /\ resAtt' = 0
    /\ resI' = 0
    /\ pcResult' = "recv"
    /\ UNCHANGED << mainVars, proxy, feedVars, resultCh, mineVars, emitted,
                    idVars, wire, pc, retryVars, sendErr, held >>

\* main.go 333-339, 348-359: proxy mode, go m.sendMinedHeaderProxy(header)
ResultLoopProxy ==
    /\ pcMain = "running"
    /\ pcResult = "recv"
    /\ proxy
    /\ resultCh # << >>
    /\ resultCh' = Tail(resultCh)
    /\ \E order \in Tiers :
         outcome' = [ outcome EXCEPT ![Head(resultCh).att] =
                        [ status |-> "proxy", order |-> order, subs |-> << >>,
                          errlogs |-> 0 ] ]
    /\ pc' = [ pc EXCEPT ![Sender(Head(resultCh).att)] = "id_read" ]
    /\ UNCHANGED << mainVars, proxy, feedVars, mineVars, emitted, pcResult, resAtt, resI, idVars, wire,
                    retryVars, sendErr, held >>

\* sendMinedHeaderProxy without the break of main.go 383
SendMinedOkNoBreak(a) ==
    /\ pc[Sender(a)] = "send"
    /\ Len(outcome[a].subs) <= MaxFail
    /\ SendTCPRequest("quai_receiveMinedHeader", cur[Sender(a)], TRUE)
    /\ outcome' = [ outcome EXCEPT ![a].subs = Append(@, [ tier |-> "proxy", ok |-> TRUE ]) ]
    /\ pc' = [ pc EXCEPT ![Sender(a)] = "id_read" ]
    /\ UNCHANGED << mainVars, proxy, feedVars, resultCh, mineVars, emitted, pcResult, resAtt, resI,
                    idVars, retryVars, sendErr, held >>

\* main.go 368-374, 382-383: the send succeeds; break
SendMinedOk(a) ==
    /\ pc[Sender(a)] = "send"
    /\ SendTCPRequest("quai_receiveMinedHeader", cur[Sender(a)], TRUE)
    /\ outcome' = [ outcome EXCEPT ![a].subs = Append(@, [ tier |-> "proxy", ok |-> TRUE ]) ]
    /\ pc' = [ pc EXCEPT ![Sender(a)] = "done" ]
    /\ UNCHANGED << mainVars, proxy, feedVars, resultCh, mineVars, emitted, pcResult, resAtt, resI,
                    idVars, retryVars, sendErr, held >>

\* main.go 374-377: the send fails; the log line, and the goroutine enters
\* time.Sleep with retryDelay not yet doubled
SendMinedFail(a, bound) ==
    /\ pc[Sender(a)] = "send"
    /\ nfail[Sender(a)] < bound
    /\ SendTCPRequest("quai_receiveMinedHeader", cur[Sender(a)], FALSE)
    /\ outcome' = [ outcome EXCEPT
                      ![a].subs = Append(@, [ tier |-> "proxy", ok |-> FALSE ]),
                      ![a].errlogs = @ + 1 ]
    /\ pc' = [ pc EXCEPT ![Sender(a)] = "sleep" ]
    /\ UNCHANGED << mainVars, proxy, feedVars, resultCh, mineVars, emitted, pcResult, resAtt, resI,
                    idVars, retryVars, sendErr, held >>

\* main.go 377-381, 385: the sleep ends, retryDelay is doubled; the loop
\* starts over at 368
SendMinedBackoff(a) ==
    /\ pc[Sender(a)] = "sleep"
    /\ Backoff(Sender(a))
    /\ pc' = [ pc EXCEPT ![Sender(a)] = "id_read" ]
    /\ UNCHANGED << mainVars, proxy, feedVars, resultCh, mineVars, emitted, resultVars,
                    idVars, wire, sendErr, held >>

(* ------------------------- specifications ------------------------------ *)
\* the direct-node program: main.go 163-170
NextNode ==
    \/ FetchNodeOk
    \/ FetchNodeFail(MaxFail)
    \/ FetchNodeBackoff
    \/ FetchNodePut
    \/ SubscribeNode
    \/ ZoneNewHeader
    \/ MiningLoopRecv
    \/ MiningLoopSeal
    \/ \E a \in 1..Len(attempts) : EngineFind(a)
    \/ \E a \in 1..Len(attempts) : EngineAbort(a)
    \/ \E a \in 1..Len(attempts) : EngineOffer(a)
    \/ ResultLoopInvalid
    \/ ResultLoopNodesRecv
    \/ ResultLoopSubmit
    \/ ResultLoopClassify

\* the engine has not hashed yet: its rate is 0
InitNode == InitCommon /\ MainStart(FALSE) /\ hashrate = << 0 >>

Spec == InitNode /\ [][NextNode]_vars

\* sealing tasks that have found a solution so far
Found ==
    Cardinality({ i \in 1..Len(attempts) : attempts[i].task \in { "found", "done", "dropped" } })

\* the proxy program: main.go 158-162 and 169-170, every goroutine main
\* starts in proxy mode and the senders resultLoop starts.  The proxy sends
\* MaxHeaders frames and the engine's searches succeed MaxFound times.
NextProxy ==
    \/ \E p \in Procs : IdRead(p)
    \/ \E p \in Procs : IdLoad(p)
    \/ \E p \in Procs : IdStore(p)
    \/ SubscribeProxySend
    \/ StartProxyListener(MaxHeaders)
    \/ FetchProxySend(MaxFail)
    \/ FetchProxyTake
    \/ FetchProxyBackoff
    \/ FetchProxyPutBack
    \/ MiningLoopRecv
    \/ MiningLoopSeal
    \/ \E a \in 1..Len(attempts) : Found < MaxFound /\ EngineFind(a)
    \/ \E a \in 1..Len(attempts) : EngineAbort(a)
    \/ \E a \in 1..Len(attempts) : EngineOffer(a)
    \/ ResultLoopInvalid
    \/ ResultLoopProxy
    \/ \E a \in 1..MaxHeaders : SendMinedOk(a)
    \/ \E a \in 1..MaxHeaders : SendMinedFail(a, MaxFail)
    \/ \E a \in 1..MaxHeaders : SendMinedBackoff(a)

InitProxy == InitCommon /\ MainStart(TRUE) /\ hashrate = << 0 >>

SpecProxy == InitProxy /\ [][NextProxy]_vars

\* the steps of the fetchPendingHeaderProxy goroutine (main.go 202-224)
FetchProxyStep ==
    \/ IdRead(FetchProxy)
    \/ IdLoad(FetchProxy)
    \/ IdStore(FetchProxy)
    \/ FetchProxySend(MaxFail)
    \/ FetchProxyTake
    \/ FetchProxyBackoff
    \/ FetchProxyPutBack

\* the steps of the subscribeProxy goroutine (main.go 177-187)
SubscribeProxyStep ==
    \/ IdRead(SubProxy)
    \/ IdLoad(SubProxy)
    \/ IdStore(SubProxy)
    \/ SubscribeProxySend

\* the steps of resultLoop in proxy mode (main.go 330-362)
ResultLoopStep == ResultLoopInvalid \/ ResultLoopProxy

\* the steps of one sendMinedHeaderProxy goroutine (main.go 365-388)
SenderStep(a) ==
    \/ IdRead(Sender(a))
    \/ IdLoad(Sender(a))
    \/ IdStore(Sender(a))
    \/ SendMinedOk(a)
    \/ SendMinedFail(a, MaxFail)
    \/ SendMinedBackoff(a)

\* the proxy program under the Go scheduler: a goroutine that can run is run
\* in the end.  Nothing obliges the proxy to send a frame, nor the engine to
\* find a solution, so the listener and the engine have no fairness
\* condition.
SpecProxyFair ==
    /\ InitProxy
    /\ [][NextProxy]_vars
    /\ WF_vars(FetchProxyStep)
    /\ WF_vars(SubscribeProxyStep)
    /\ WF_vars(MiningLoopRecv)
    /\ WF_vars(MiningLoopSeal)
    /\ WF_vars(ResultLoopStep)
    /\ \A a \in 1..MaxHeaders : WF_vars(SenderStep(a))

(* --------------------------- hashratePrinter --------------------------- *)
\* A natural number is the sequence of its base-2^15 digits, most significant
\* first and without leading zeros; << >> is 0.  A float64 is a record
\* [ m, e ] that stands for m * 2^e, with m a natural number of exactly 53
\* bits, or m = << >> for 0.0.  The rates stay far from the subnormal and the
\* overflow range of float64.
Base == 32768

Zero == [ m |-> << >>, e |-> 0 ]

RECURSIVE Exp2(_)
Exp2(n) == IF n = 0 THEN 1 ELSE 2 * Exp2(n - 1)

RECURSIVE Norm(_)
Norm(x) == IF x # << >> /\ x[1] = 0 THEN Norm(Tail(x)) ELSE x

\* x * c + a, for c and a below 2^13
RECURSIVE MulAdd(_, _, _)
MulAdd(x, c, a) ==
    IF x = << >>
    THEN IF a = 0 THEN << >> ELSE << a >>
    ELSE MulAdd(SubSeq(x, 1, Len(x) - 1), c, (x[Len(x)] * c + a) \div Base)
           \o << (x[Len(x)] * c + a) % Base >>

\* quotient q and remainder r of x by d, for d up to 2^15
RECURSIVE DivFrom(_, _, _, _, _)
DivFrom(x, d, i, rem, acc) ==
    IF i > Len(x)
    THEN [ q |-> Norm(acc), r |-> rem ]
    ELSE DivFrom(x, d, i + 1, (rem * Base + x[i]) % d,
                 Append(acc, (rem * Base + x[i]) \div d))

DivSmall(x, d) == DivFrom(x, d, 1, 0, << >>)

RECURSIVE BitsOf(_)
BitsOf(n) == IF n = 0 THEN 0 ELSE 1 + BitsOf(n \div 2)

BitLen(x) == IF x = << >> THEN 0 ELSE (Len(x) - 1) * 15 + BitsOf(x[1])

\* x * 2^s
RECURSIVE ShiftLeft(_, _)
ShiftLeft(x, s) ==
    IF x = << >> THEN << >>
    ELSE IF s >= 15 THEN ShiftLeft(x \o << 0 >>, s - 15)
    ELSE MulAdd(x, Exp2(s), 0)

\* floor(x / 2^s)
RECURSIVE ShiftRight(_, _)
ShiftRight(x, s) ==
    IF x = << >> THEN << >>
    ELSE IF s >= 15 THEN ShiftRight(SubSeq(x, 1, Len(x) - 1), s - 15)
    ELSE DivSmall(x, Exp2(s)).q

\* IEEE 754 round to nearest, ties to even: the float64 nearest to the real
\* number n * 2^e (sticky = FALSE), or to a real number strictly between
\* n * 2^e and (n + 1) * 2^e (sticky = TRUE; n has more than 53 bits then)
RECURSIVE RoundTo53(_, _, _)
RoundTo53(n, e, sticky) ==
    IF n = << >> THEN Zero
    ELSE IF BitLen(n) <= 53
    THEN [ m |-> ShiftLeft(n, 53 - BitLen(n)), e |-> e - (53 - BitLen(n)) ]
    ELSE IF BitLen(n) - 53 > 15
    THEN RoundTo53(SubSeq(n, 1, Len(n) - 1), e + 15, sticky \/ n[Len(n)] # 0)
    ELSE LET d == BitLen(n) - 53
             qr == DivSmall(n, Exp2(d))
             half == Exp2(d - 1)
             up == \/ qr.r > half
                   \/ qr.r = half /\ sticky
                   \/ qr.r = half /\ ~sticky /\ qr.q[Len(qr.q)] % 2 = 1
             m1 == IF up THEN MulAdd(qr.q, 1, 1) ELSE qr.q
         IN  IF BitLen(m1) > 53
             THEN [ m |-> DivSmall(m1, 2).q, e |-> e + d + 1 ]
             ELSE [ m |-> m1, e |-> e + d ]

\* float64(n) for a natural number n
Float64(n) == RoundTo53(n, 0, FALSE)

\* n is a float64 value
IsFloat64(n) ==
    \/ BitLen(n) <= 53
    \/ ShiftLeft(Float64(n).m, Float64(n).e) = n

\* main.go 299: reduced /= 1000, one IEEE 754 division
Div1000(f) ==
    LET qr == DivSmall(ShiftLeft(f.m, 12), 1000)
    IN  RoundTo53(qr.q, f.e - 12, qr.r # 0)

\* main.go 298: reduced >= 1000; the integer part of f has 53 + f.e bits
AtLeast1000(f) ==
    IF f.m = << >> THEN FALSE
    ELSE IF 53 + f.e > 10 THEN TRUE
    ELSE IF 53 + f.e < 10 THEN FALSE
    ELSE ShiftRight(f.m, 43)[1] >= 1000

\* main.go 295-304: the loop
RECURSIVE Reduce(_, _)
Reduce(reduced, order) ==
    IF AtLeast1000(reduced)
    THEN Reduce(Div1000(reduced), order + 3)
    ELSE [ reduced |-> reduced, order |-> order ]

\* toSiUnits whose default case returns the reduced value
toSiUnitsReduced(hr) ==
    LET r == Reduce(hr, 0)
    IN  CASE r.order = 3 -> [ hr |-> r.reduced, units |-> "Kh/s" ]
          [] r.order = 6 -> [ hr |-> r.reduced, units |-> "Mh/s" ]
          [] r.order = 9 -> [ hr |-> r.reduced, units |-> "Gh/s" ]
          [] r.order = 12 -> [ hr |-> r.reduced, units |-> "Th/s" ]
          [] OTHER -> [ hr |-> r.reduced, units |-> "h/s" ]

\* main.go 294-317: the closure toSiUnits
toSiUnits(hr) ==
    LET r == Reduce(hr, 0)
    IN  CASE r.order = 3 -> [ hr |-> r.reduced, units |-> "Kh/s" ]
          [] r.order = 6 -> [ hr |-> r.reduced, units |-> "Mh/s" ]
          [] r.order = 9 -> [ hr |-> r.reduced, units |-> "Gh/s" ]
          [] r.order = 12 -> [ hr |-> r.reduced, units |-> "Th/s" ]
          [] OTHER -> [ hr |-> hr, units |-> "h/s" ]

\* A rate the engine reports is written in decimal, in groups of three
\* digits, most significant group first: 1000 is << 1, 0 >>, 0 is << 0 >>.
LimbValues == { 0, 1, 999 }

\* the natural number of a sequence of groups
RECURSIVE FromGroups(_, _, _)
FromGroups(r, i, acc) ==
    IF i > Len(r) THEN acc ELSE FromGroups(r, i + 1, MulAdd(acc, 1000, r[i]))

Natural(r) == FromGroups(r, 1, << >>)

\* the non-negative integer rates of at most MaxLimbs groups that are float64
\* values, and 950, 1500 and 2500000
Rates ==
    { r \in UNION { { g \in [ 1..n -> LimbValues ] : n > 1 => g[1] # 0 } :
                      n \in 1..MaxLimbs } : IsFloat64(Natural(r)) }
      \cup { << 950 >>, << 1, 500 >>, << 2, 500, 0 >> }

\* main.go 318-326: the ticker fires; the rate is read, converted and logged
HashratePrinterTick ==
    /\ pcMain = "running"
    /\ printed' = toSiUnits(Float64(Natural(hashrate)))
    /\ UNCHANGED << hashrate, pcMain, urlSet, connected, dials, dialTier, dialFails,
                    proxy, feedVars,
                    resultCh, mineVars, emitted, resultVars, idVars, wire, pc,
                    retryVars, sendErr, held >>

\* main.go 171: hashratePrinter is started after the other goroutines (the
\* mode plays no part in it; the direct-node start is taken); the engine
\* reports one of the rates
InitHashrate == InitCommon /\ MainStart(FALSE) /\ hashrate \in Rates

NextHashrate == HashratePrinterTick

SpecHashrate == InitHashrate /\ [][NextHashrate]_vars

(* --------------------------- connectToSlice --------------------------- *)
\* main.go 95: the loop condition holds, a pass of the body begins
ConnectToSliceTest ==
    /\ pcMain = "connect"
    /\ dialTier = HierarchyDepth
    /\ \E t \in Tiers : ~connected[t]
    /\ dialTier' = PRIME_CTX
    /\ UNCHANGED << pcMain, urlSet, connected, dials, dialFails, hashrate, printed,
                    proxy, feedVars, resultCh, mineVars, emitted, resultVars,
                    idVars, wire, pc, retryVars, sendErr, held >>

\* main.go 96-102, 104-110, 112-118: the URL of tier t is not "" and t is not
\* connected: ethclient.Dial is called; it fails (log line) or succeeds (the
\* flag of t is set)
ConnectToSliceDial(t) ==
    /\ pcMain = "connect"
    /\ dialTier = t
    /\ urlSet[t] /\ ~connected[t]
    /\ \E ok \in BOOLEAN :
         /\ ~ok => dialFails < MaxFail
         /\ connected' = [ connected EXCEPT ![t] = ok ]
         /\ dials' = [ dials EXCEPT ![t] = @ + (IF ok THEN 1 ELSE 0) ]
         /\ dialFails' = dialFails + (IF ok THEN 0 ELSE 1)
    /\ dialTier' = t + 1
    /\ UNCHANGED << pcMain, urlSet, hashrate, printed, proxy, feedVars, resultCh,
                    mineVars, emitted, resultVars, idVars, wire, pc, retryVars,
                    sendErr, held >>

\* main.go 96, 104, 112: the URL of tier t is "" or t is connected already:
\* the `if` is passed over without a dial
ConnectToSliceSkip(t) ==
    /\ pcMain = "connect"
    /\ dialTier = t
    /\ ~(urlSet[t] /\ ~connected[t])
    /\ dialTier' = t + 1
    /\ UNCHANGED << pcMain, urlSet, connected, dials, dialFails, hashrate, printed,
                    proxy, feedVars, resultCh, mineVars, emitted, resultVars,
                    idVars, wire, pc, retryVars, sendErr, held >>

\* connectToSlice with the loop condition of main.go 95 joined by && : the
\* loop is left as soon as one tier is connected
ConnectToSliceReturnAny ==
    /\ pcMain = "connect"
    /\ dialTier = HierarchyDepth
    /\ \E t \in Tiers : connected[t]
    /\ pcMain' = "running"
    /\ dialFails' = 0
    /\ pc' = [ pc EXCEPT ![FetchNode] = "get" ]
    /\ UNCHANGED << urlSet, connected, dials, dialTier, hashrate, printed, proxy,
                    feedVars, resultCh, mineVars, emitted, resultVars, idVars,
                    wire, retryVars, sendErr, held >>

\* main.go 95, 121 and 163-170: the loop condition is false, connectToSlice
\* returns, and main starts the goroutines of the direct-node mode
ConnectToSliceReturn ==
    /\ pcMain = "connect"
    /\ dialTier = HierarchyDepth
    /\ \A t \in Tiers : connected[t]
    /\ pcMain' = "running"
    /\ dialFails' = 0
    /\ pc' = [ pc EXCEPT ![FetchNode] = "get" ]
    /\ UNCHANGED << urlSet, connected, dials, dialTier, hashrate, printed, proxy,
                    feedVars, resultCh, mineVars, emitted, resultVars, idVars,
                    wire, retryVars, sendErr, held >>

\* main.go 163-164: direct-node mode, connectToSlice has just been called;
\* each of the three URLs of the configuration is either set or ""
InitConnect ==
    /\ InitCommon
    /\ hashrate = << 0 >>
    /\ pcMain = "connect"
    /\ urlSet \in [ Tiers -> BOOLEAN ]
    /\ connected = [ t \in Tiers |-> FALSE ]
    /\ dials = [ t \in Tiers |-> 0 ]
    /\ dialTier = HierarchyDepth
    /\ dialFails = 0
    /\ proxy = FALSE
    /\ produced = 1
    /\ pc = [ p \in Procs |-> "idle" ]

\* the direct-node program from the call of connectToSlice on
NextConnect ==
    \/ ConnectToSliceTest
    \/ \E t \in Tiers : ConnectToSliceDial(t)
    \/ \E t \in Tiers : ConnectToSliceSkip(t)
    \/ ConnectToSliceReturn
    \/ NextNode

SpecConnect == InitConnect /\ [][NextConnect]_vars

\* A state the proxy program reaches: subscribeProxy and
\* fetchPendingHeaderProxy have returned (login and first request written,
\* the header put back), the listener has delivered n headers, and each of
\* them was sealed and its result offered before the next one arrived.
InitResults(n) ==
    /\ proxy = TRUE
    /\ produced = n
    /\ subscribed = FALSE
    /\ updateCh = << >>
    /\ resultCh = [ i \in 1..n |-> [ hdr |-> i, att |-> i ] ]
    /\ pcMine = "recv"
    /\ header = n
    /\ stopCh = n
    /\ attempts = [ i \in 1..n |->
                      [ hdr |-> i, closes |-> IF i < n THEN 1 ELSE 0,
                        seal |-> "ok", task |-> "done" ] ]
    /\ emitted = [ i \in 1..n |->
                     [ att |-> i, hdr |-> i, started |-> i, queued |-> TRUE ] ]
    /\ pcResult = "recv"
    /\ resAtt = 0
    /\ resI = 0
    /\ outcome = [ a \in 1..MaxHeaders |-> NoOutcome ]
    /\ latestId = 2
    /\ wire = << [ method |-> "quai_submitLogin", id |-> 0 ],
                 [ method |-> "quai_getPendingHeader", id |-> 1 ] >>
    /\ issued = << [ proc |-> SubProxy, id |-> 0 ],
                   [ proc |-> FetchProxy, id |-> 1 ] >>
    /\ pc = [ p \in Procs |-> IF p \in { SubProxy, FetchProxy } THEN "done" ELSE "idle" ]
    /\ cur = [ p \in Procs |-> IF p = FetchProxy THEN 1 ELSE 0 ]
    /\ tmp = [ p \in Procs |-> IF p = FetchProxy THEN 1 ELSE 0 ]
    /\ retryDelay = [ p \in Procs |-> 1 ]
    /\ nfail = [ p \in Procs |-> 0 ]
    /\ lastSleep = [ p \in Procs |-> 0 ]
    /\ sendErr = FALSE
    /\ held = [ p \in Procs |-> IF p = FetchProxy THEN 1 ELSE 0 ]
    /\ firstPush = "listener"
    /\ pcMain = "running"
    /\ urlSet = [ t \in Tiers |-> FALSE ]
    /\ connected = [ t \in Tiers |-> FALSE ]
    /\ dials = [ t \in Tiers |-> 0 ]
    /\ dialTier = HierarchyDepth
    /\ dialFails = 0
    /\ hashrate = << 0 >>
    /\ printed = NoLine

\* resultLoop and the sendMinedHeaderProxy goroutines it starts, in proxy
\* mode: main.go 330-351, 365-388
NextSubmit ==
    \/ \E p \in Procs : IdRead(p)
    \/ \E p \in Procs : IdLoad(p)
    \/ \E p \in Procs : IdStore(p)
    \/ ResultLoopInvalid
    \/ ResultLoopProxy
    \/ \E a \in 1..MaxHeaders : SendMinedOk(a)
    \/ \E a \in 1..MaxHeaders : SendMinedFail(a, MaxFail)
    \/ \E a \in 1..MaxHeaders : SendMinedBackoff(a)

\* two results wait on resultCh, so that two sendMinedHeaderProxy goroutines
\* run side by side
InitSubmit == InitResults(2)

SpecSubmit == InitSubmit /\ [][NextSubmit]_vars

\* the three retry loops, one at a time, each meeting up to MaxRetries
\* failures: fetchPendingHeaderNode (direct-node start), and in proxy mode
\* fetchPendingHeaderProxy (proxy start) and sendMinedHeaderProxy (one
\* result waiting)
InitRetry ==
    \/ InitNode
    \/ InitProxy
    \/ InitResults(1)

NextRetry ==
    \/ FetchNodeOk
    \/ FetchNodeFail(MaxRetries)
    \/ FetchNodeBackoff
    \/ FetchNodePut
    \/ \E p \in Procs \ { SubProxy } : IdRead(p)
    \/ \E p \in Procs \ { SubProxy } : IdLoad(p)
    \/ \E p \in Procs \ { SubProxy } : IdStore(p)
    \/ StartProxyListener(MaxRetries + 1)
    \/ FetchProxySend(MaxRetries)
    \/ FetchProxyTake
    \/ FetchProxyBackoff
    \/ FetchProxyPutBack
    \/ ResultLoopProxy
    \/ \E a \in 1..MaxHeaders : SendMinedOk(a)
    \/ \E a \in 1..MaxHeaders : SendMinedFail(a, MaxRetries)
    \/ \E a \in 1..MaxHeaders : SendMinedBackoff(a)

SpecRetry == InitRetry /\ [][NextRetry]_vars

(* ------------------------------ properties ----------------------------- *)
Min(a, b) == IF a < b THEN a ELSE b

RECURSIVE Pow2(_)
Pow2(n) == IF n = 0 THEN 1 ELSE 2 * Pow2(n - 1)

\* the tiers submitted to, in submission order
TiersOf(subs) == [ k \in 1..Len(subs) |-> subs[k].tier ]

\* the successful submissions of a result
OkCount(subs) == Cardinality({ k \in 1..Len(subs) : subs[k].ok })

\* C1: at most one stop channel is open at any time, and when engine.Seal is
\* about to be invoked, or has been invoked, for an attempt, the stop channel
\* of every earlier attempt is already closed.
C1_OneLiveSeal ==
    /\ Cardinality(OpenStops) <= 1
    /\ pcMine = "seal" => \A j \in 1..(stopCh - 1) : attempts[j].closes >= 1
    /\ \A i \in 1..Len(attempts) :
         attempts[i].seal # "pending" =>
           \A j \in 1..(i - 1) : attempts[j].closes >= 1

\* C1 witness: a second attempt was started while the first one was sealing
C1_Witness ==
    /\ Len(attempts) >= 2
    /\ attempts[1].seal = "ok"
    /\ attempts[2].seal = "ok"

\* C2: no result of an attempt is placed on the result channel after the
\* seal attempt of a later header has started: every result placed there
\* comes from the newest attempt started, and an attempt's stop channel is
\* closed before a later attempt is started.
C2_NoStaleResult ==
    /\ \A k \in 1..Len(emitted) :
         emitted[k].queued => emitted[k].started = emitted[k].att
    /\ \A i \in 1..Len(attempts) : \A j \in (i + 1)..Len(attempts) :
         attempts[j].seal = "ok" => attempts[i].closes >= 1

\* C2 witness: header A's task had found its solution when header B arrived;
\* A was cancelled and its solution dropped, B's attempt was started and B's
\* result is the only one placed on the result channel
C2_Witness ==
    /\ Len(attempts) = 2
    /\ attempts[1].hdr = 1
    /\ attempts[1].task = "dropped"
    /\ attempts[2].hdr = 2
    /\ attempts[2].task = "done"
    /\ emitted = << [ att |-> 2, hdr |-> 2, started |-> 2, queued |-> TRUE ] >>

\* C3: in direct-node mode a result of valid order is submitted to exactly the
\* tiers from Zone up to its order, deepest first: [Zone], [Zone, Region] or
\* [Zone, Region, Prime]; while the fan-out is under way the tiers submitted
\* to so far are Zone, Region, ... in that order and none is coarser than
\* the order.
C3_FanOutTiers ==
    \A a \in 1..MaxHeaders :
      /\ outcome[a].status = "submitting" =>
           \A k \in 1..Len(outcome[a].subs) :
             /\ outcome[a].subs[k].tier = HierarchyDepth - k
             /\ outcome[a].subs[k].tier >= outcome[a].order
      /\ outcome[a].status = "nodes" =>
        /\ outcome[a].order = ZONE_CTX => TiersOf(outcome[a].subs) = << ZONE_CTX >>
        /\ outcome[a].order = REGION_CTX =>
             TiersOf(outcome[a].subs) = << ZONE_CTX, REGION_CTX >>
        /\ outcome[a].order = PRIME_CTX =>
             TiersOf(outcome[a].subs) = << ZONE_CTX, REGION_CTX, PRIME_CTX >>

\* C3 witness: a Prime-order result has been fanned out
C3_Witness ==
    \E a \in 1..MaxHeaders :
      outcome[a].status = "nodes" /\ outcome[a].order = PRIME_CTX

\* C4: when some tier's submission fails, every tier between Zone and the
\* order is still submitted to, and resultLoop is still running afterwards.
C4_FailureIsolated ==
    \A a \in 1..MaxHeaders :
      (outcome[a].status = "nodes" /\ OkCount(outcome[a].subs) < Len(outcome[a].subs)) =>
        /\ \A t \in outcome[a].order..ZONE_CTX :
             \E k \in 1..Len(outcome[a].subs) : outcome[a].subs[k].tier = t
        /\ pcResult = "returned" => \E b \in 1..MaxHeaders : outcome[b].status = "invalid"

\* C4 witness: order Prime, Region failed, Zone and Prime were submitted, and
\* the next result has been processed too
C4_Witness ==
    /\ outcome[1].status = "nodes"
    /\ outcome[1].order = PRIME_CTX
    /\ outcome[1].subs = << [ tier |-> ZONE_CTX, ok |-> TRUE ],
                            [ tier |-> REGION_CTX, ok |-> FALSE ],
                            [ tier |-> PRIME_CTX, ok |-> TRUE ] >>
    /\ outcome[2].status = "nodes"

\* C5: the ids returned by incrementLatestID are 0, 1, 2, ... in the order of
\* the calls' returns: pairwise distinct, each one greater than the previous.
C5_DistinctIds ==
    \A k \in 1..Len(issued) : issued[k].id = k - 1

\* C6: in every retry loop the delay slept after the n-th failure (n from 0)
\* is min(2^n, maxRetryDelay), and the delay kept for the next failure is
\* min(2^(n+1), maxRetryDelay).
C6_BackoffDelay ==
    \A p \in Procs :
      /\ retryDelay[p] = Min(Pow2(nfail[p]), maxRetryDelay)
      /\ nfail[p] > 0 => lastSleep[p] = Min(Pow2(nfail[p] - 1), maxRetryDelay)

\* C6 witness: a loop has failed often enough to sleep the capped delay
C6_Witness ==
    \E p \in Procs : nfail[p] = MaxRetries /\ lastSleep[p] = maxRetryDelay

\* C7: every request written to the proxy connection other than the login
\* has the login request written before it.
C7_LoginFirst ==
    \A k \in 1..Len(wire) :
      wire[k].method # "quai_submitLogin" =>
        \E j \in 1..(k - 1) : wire[j].method = "quai_submitLogin"

\* C8: a result whose CalcOrder fails is submitted nowhere, and resultLoop
\* keeps running after it.
C8_InvalidOrderDropped ==
    \A a \in 1..MaxHeaders :
      outcome[a].status = "invalid" =>
        /\ outcome[a].subs = << >>
        /\ pcResult = "recv"

\* C9: in proxy mode a result of valid order is submitted to the proxy only;
\* every failed send is followed by another send, and the sender stops at its
\* first successful send, so a finished sender has made exactly one
\* successful submission and an unfinished one none.  Its failed sends are
\* the backoffs it has been through, and one more while it sleeps.
C9_ProxySubmitOnce ==
    \A a \in 1..MaxHeaders :
      outcome[a].status = "proxy" =>
        /\ \A k \in 1..Len(outcome[a].subs) : outcome[a].subs[k].tier = "proxy"
        /\ OkCount(outcome[a].subs) = IF pc[Sender(a)] = "done" THEN 1 ELSE 0
        /\ pc[Sender(a)] = "done" => outcome[a].subs[Len(outcome[a].subs)].ok
        /\ Len(outcome[a].subs) =
             nfail[Sender(a)] + OkCount(outcome[a].subs)
               + (IF pc[Sender(a)] = "sleep" THEN 1 ELSE 0)

\* C9 witness: a sender has finished after a failed send, while the other
\* result was sent as well
C9_Witness ==
    /\ pc[Sender(1)] = "done"
    /\ nfail[Sender(1)] >= 1
    /\ pc[Sender(2)] = "done"

\* C10: miningLoop receives the headers in the order the feed produced them.
C10_InOrder ==
    \A i \in 1..Len(attempts) : \A j \in (i + 1)..Len(attempts) :
      attempts[i].hdr <= attempts[j].hdr

\* C11: once the feed has stopped and everything it produced has been
\* consumed (no header left on the update channel, the initial fetch has
\* returned, miningLoop waits for the next update), the last seal attempt
\* miningLoop started is for the newest header the upstream produced.
C11_LatestSealedLast ==
    ( /\ produced = MaxHeaders
      /\ updateCh = << >>
      /\ pc[FetchProxy] = "done"
      /\ pcMine = "recv"
      /\ attempts # << >> )
    => attempts[Len(attempts)].hdr = produced

\* C12: while connectToSlice has not returned, no goroutine of the pipeline
\* has done anything; once it has returned, Prime, Region and Zone are all
\* connected; and no tier is dialled successfully more than once, a tier
\* being connected exactly when its one dial has succeeded.
C12_ConnectBeforeStart ==
    /\ pcMain = "connect" =>
         /\ pc[FetchNode] = "idle"
         /\ nfail[FetchNode] = 0
         /\ ~subscribed
         /\ updateCh = << >>
         /\ attempts = << >>
         /\ emitted = << >>
         /\ pcResult = "recv"
         /\ \A a \in 1..MaxHeaders : outcome[a] = NoOutcome
    /\ pcMain = "running" => \A t \in Tiers : connected[t]
    /\ \A t \in Tiers : dials[t] = IF connected[t] THEN 1 ELSE 0

\* C12 witness: connectToSlice has returned with every tier dialled once, the
\* fetch has returned and miningLoop has received a header
C12_Witness ==
    /\ pcMain = "running"
    /\ \A t \in Tiers : dials[t] = 1
    /\ attempts # << >>
    /\ pc[FetchNode] = "done"

\* C13: the first header placed on the update channel is the one the initial
\* fetch puts there; the proxy listener and the Zone subscription deliver
\* only after it.
C13_FetchFirst == firstPush \in { "none", "fetch" }

\* C14: no header the listener pushed is lost: every header produced so far
\* is on the update channel, or held by fetchPendingHeaderProxy between its
\* take and the end of that iteration, or has been received by miningLoop.
C14_NoHeaderLost ==
    \A h \in 1..produced :
      \/ \E k \in 1..Len(updateCh) : updateCh[k] = h
      \/ pc[FetchProxy] \in { "sleep", "put" } /\ held[FetchProxy] = h
      \/ \E i \in 1..Len(attempts) : attempts[i].hdr = h

\* C15: whenever the send of quai_getPendingHeader has failed, the fetch
\* goroutine reaches the send of the next request.
C15_ResendAfterFailure ==
    (pc[FetchProxy] = "take" /\ sendErr) ~> (pc[FetchProxy] = "send")

\* C16: an error returned by engine.Seal leaves miningLoop running: after the
\* failed attempt the loop waits for the next header with the failed
\* attempt's stop channel still held and open, and once a later attempt
\* exists that stop channel has been closed exactly once and the later
\* attempt has a stop channel of its own.
C16_SealErrorKeepsLoop ==
    \A i \in 1..Len(attempts) :
      attempts[i].seal = "err" =>
        /\ pcMine \in { "recv", "seal" }
        /\ i = Len(attempts) =>
             pcMine = "recv" /\ stopCh = i /\ attempts[i].closes = 0
        /\ i < Len(attempts) =>
             attempts[i].closes = 1 /\ stopCh > i /\ stopCh = Len(attempts)

\* C16 witness: the first Seal call failed, and the next header was received
\* and sealed
C16_Witness ==
    /\ Len(attempts) = 2
    /\ attempts[1].seal = "err"
    /\ attempts[1].closes = 1
    /\ attempts[2].seal = "ok"

\* C17: every failed submission of a result has its log line: the number of
\* error log lines written for a result is the number of its failed
\* submissions (plus the line of an invalid order).
C17_ErrorsLogged ==
    \A a \in 1..MaxHeaders :
      outcome[a].errlogs =
        (Len(outcome[a].subs) - OkCount(outcome[a].subs))
          + (IF outcome[a].status = "invalid" THEN 1 ELSE 0)

\* x <= y for natural numbers
RECURSIVE LexLeq(_, _, _)
LexLeq(x, y, i) ==
    IF i > Len(x) THEN TRUE
    ELSE IF x[i] # y[i] THEN x[i] < y[i]
    ELSE LexLeq(x, y, i + 1)

Leq(x, y) == IF Len(x) # Len(y) THEN Len(x) < Len(y) ELSE LexLeq(x, y, 1)

\* x - y for natural numbers x >= y
RECURSIVE SubFrom(_, _, _, _, _)
SubFrom(x, y, i, borrow, acc) ==
    IF i = 0 THEN Norm(acc)
    ELSE LET j == i - (Len(x) - Len(y))
             t == x[i] - (IF j >= 1 THEN y[j] ELSE 0) - borrow
         IN  SubFrom(x, y, i - 1, IF t < 0 THEN 1 ELSE 0,
                     << (t + Base) % Base >> \o acc)

Dist(x, y) == IF Leq(x, y) THEN SubFrom(y, x, Len(y), 0, << >>)
              ELSE SubFrom(x, y, Len(x), 0, << >>)

\* x * 1000^k
RECURSIVE Times1000(_, _)
Times1000(x, k) == IF k = 0 THEN x ELSE Times1000(MulAdd(x, 1000, 0), k - 1)

\* floor(x / 1000^k), and whether a remainder was dropped
RECURSIVE Over1000(_, _, _)
Over1000(x, k, sticky) ==
    IF k = 0 THEN [ q |-> x, sticky |-> sticky ]
    ELSE Over1000(DivSmall(x, 1000).q, k - 1, sticky \/ DivSmall(x, 1000).r # 0)

\* the float64 nearest to n / 1000^k
Nearest(n, k) ==
    LET q == Over1000(ShiftLeft(n, 105), k, FALSE)
    IN  RoundTo53(q.q, 0 - 105, q.sticky)

\* the float64 f is the natural number n
IsNatural(f, n) ==
    IF n = << >> THEN f.m = << >>
    ELSE IF f.e >= 0 THEN ShiftLeft(f.m, f.e) = n
    ELSE f.m = ShiftLeft(n, 0 - f.e)

\* the float64 f < 2^52 is within k * 2^-52 * (n / 1000^k) of n / 1000^k
Within(f, n, k) ==
    /\ f.e < 0
    /\ Leq(ShiftLeft(Dist(Times1000(f.m, k), ShiftLeft(n, 0 - f.e)), 52),
           MulAdd(ShiftLeft(n, 0 - f.e), k, 0))

\* the number of divisions by 1000 that bring the rate below 1000
Divisions == Len(hashrate) - 1

\* C18 as stated: the value logged with Kh/s, Mh/s, Gh/s, Th/s after k
\* divisions is r / 1000^k, that is the float64 nearest to it.
C18_ExactQuotient ==
    (printed # NoLine /\ Divisions \in 1..4) =>
      printed.hr = Nearest(Natural(hashrate), Divisions)

\* C18: with k the number of divisions by 1000 that bring the rate r below
\* 1000, the logged pair is (v, unit) with unit Kh/s, Mh/s, Gh/s, Th/s for
\* k = 1, 2, 3, 4 and v the result of k float64 divisions, which is within
\* k * 2^-52 (relative) of r / 1000^k; it is (r, "h/s") with r undivided
\* for k = 0 and for k >= 5; r = 1000 is logged as exactly 1 Kh/s, 1500 as
\* 1.5 Kh/s, 2500000 as 2.5 Mh/s, 950 as 950 h/s.
C18_SiUnits ==
    printed # NoLine =>
      LET k == Divisions
          r == Natural(hashrate)
      IN  /\ k \in 1..4 =>
               /\ printed.units = << "Kh/s", "Mh/s", "Gh/s", "Th/s" >>[k]
               /\ ~AtLeast1000(printed.hr)
               /\ Within(printed.hr, r, k)
          /\ (k = 0 \/ k >= 5) =>
               /\ printed.units = "h/s"
               /\ IsNatural(printed.hr, r)
          /\ hashrate = << 1, 0 >> =>
               printed = [ hr |-> [ m |-> ShiftLeft(<< 1 >>, 52), e |-> 0 - 52 ],
                           units |-> "Kh/s" ]
          /\ hashrate = << 1, 500 >> =>
               printed = [ hr |-> [ m |-> ShiftLeft(<< 3 >>, 51), e |-> 0 - 52 ],
                           units |-> "Kh/s" ]
          /\ hashrate = << 2, 500, 0 >> =>
               printed = [ hr |-> [ m |-> ShiftLeft(<< 5 >>, 50), e |-> 0 - 51 ],
                           units |-> "Mh/s" ]
          /\ hashrate = << 950 >> => printed.units = "h/s"

\* C18 witness: a rate of at least 10^15 has been logged
C18_Witness ==
    /\ Len(hashrate) = 6
    /\ hashrate[1] = 999
    /\ printed.units = "h/s"

\* C19: every stop channel made is closed exactly once, by the interrupt of
\* the next update, and not before: the channel of the newest attempt is
\* open, the channel of every earlier attempt has been closed once, and the
\* channel miningLoop holds is the newest one (nil only before the first).
C19_StopChannelClosedOnce ==
    /\ stopCh = Len(attempts)
    /\ \A i \in 1..Len(attempts) :
         attempts[i].closes = IF i < Len(attempts) THEN 1 ELSE 0

\* C19 witness: the second attempt is mining with its stop channel open,
\* the first attempt's stop channel has been closed
C19_Witness ==
    /\ Len(attempts) = 2
    /\ pcMine = "recv"
    /\ attempts[2].task = "mining"
    /\ attempts[2].closes = 0
    /\ attempts[1].closes = 1

====
